---- MODULE Spec2Model ----
(***************************************************************************)
(* The bot-control state machine of the enhanced Kalshi bot, as its two    *)
(* front ends implement it:                                                *)
(*   desktop admin panel  App.jsx + pages/TradingControl.jsx               *)
(*   Telegram web app     App.jsx (unnamed/part_001) +                      *)
(*                        pages/Trading.jsx (unnamed/part_003)             *)
(* botStatus is state of the App component; isLoading is state of the      *)
(* trading page, which a route mounts and unmounts.  Every handler is an   *)
(* async function: the click part runs to the await, a timer of the        *)
(* handler's delay runs, and the completion part runs after it.            *)
(*                                                                         *)
(* Time is counted in milliseconds and advances in steps of the greatest   *)
(* common divisor of the front end's handler delays.  The desktop poll of  *)
(* 30 s is long against every delay and the operator clicks at any phase   *)
(* of it, so its phase is left open: fetchBotStatus may run at any time.   *)
(* new Date() is kept by identity only: a stamp that differs from the one  *)
(* it replaces (0 stands for null).                                        *)
(***************************************************************************)
EXTENDS Integers, Sequences, FiniteSets, TLC

VARIABLES
  app,              \* which front end runs: "desktop" or "telegram"
  botStatus,        \* App state: [isRunning, isTradingEnabled, lastUpdate]
  route,            \* the page the router shows: "dashboard" or "trading"
  isLoading,        \* state of the mounted trading page
  pending,          \* handler invocations waiting on their timer, in click order
  toast,            \* the toast the last step showed, if any: [level, text]
  event,            \* history: the step taken last
  emergencyStopped, \* history: an emergency stop took effect and no start was clicked since
  engineState,      \* TradingEngine: "Stopped", "Monitoring", "Trading", "EmergencyStopped"
  limits,           \* RiskLimits, supplied from outside and only read
  ledger,           \* PortfolioLedger: exposure held per market
  dailyLoss,        \* the day's realized and unrealized loss, in dollars
  snapshot,         \* the cycle's PortfolioState: exposure per market, spent as orders are approved
  signals,          \* number of signals of the running cycle not yet evaluated
  orders,           \* approved orders submitted and not yet filled
  dailyTrades,      \* the RiskManager's rolling daily counter
  decision,         \* the RiskManager's last decision; serial alternates with every evaluation
  probe,            \* a caller of RiskManager.evaluate: its arguments and the first decision it got
  tradingSettings,  \* TradingControl state: the numeric inputs of the Trading tab
  emergencySettings, \* TradingControl state: the Emergency tab
  now,              \* RateLimiter: int(time.time()), in seconds
  redis,            \* RateLimiter: the sorted set of the key and the time it expires
  quota,            \* RateLimiter: the limit and window every call is made with
  admitted,         \* history: the times of the requests is_allowed has admitted
  position,         \* PortfolioLedger: a position, [status, quantity, averagePrice, realizedPnl]
  trades,           \* PortfolioLedger: the append-only Trades of the position
  strategies,       \* Strategies page state: per id [enabled, allocation, performance, settings]
  strategyEvent     \* history: the Strategies handler that ran last, [op, id, toast]

uiVars == <<app, botStatus, route, isLoading, pending, toast, event, emergencyStopped>>

engineVars == <<engineState, limits, ledger, dailyLoss, snapshot, signals, orders,
                dailyTrades, decision>>

\* State of the parts that are looked at on their own.
otherVars == <<probe, tradingSettings, emergencySettings, now, redis, quota, admitted,
               position, trades, strategies, strategyEvent>>

vars == <<uiVars, engineVars, otherVars>>

\* Handler invocations that may wait on their timers at once.
MaxPending == 2

Apps == {"desktop", "telegram"}

\* new Date().toISOString(): a timestamp other than the one it replaces (two
\* stamps, 1 and 2, are enough to tell a fresh timestamp from the last one).
NewDate(last) == IF last = 1 THEN 2 ELSE 1

\* useState({isRunning: false, isTradingEnabled: false, lastUpdate: null})
DesktopInitialBotStatus ==
  [isRunning |-> FALSE, isTradingEnabled |-> FALSE, lastUpdate |-> 0]

TelegramInitialBotStatus ==
  [isRunning |-> FALSE, isTradingEnabled |-> FALSE, lastUpdate |-> 0]

InitialBotStatus(a) ==
  IF a = "desktop" THEN DesktopInitialBotStatus ELSE TelegramInitialBotStatus

\* setTimeout delays of the simulated API calls, in ms.
DesktopDelay(op) ==
  CASE op = "start"  -> 2000
    [] op = "stop"   -> 1500
    [] op = "toggle" -> 1000
    [] op = "estop"  -> 500
    [] op = "save"   -> 1000

TelegramDelay(op) ==
  CASE op = "start"  -> 1500
    [] op = "stop"   -> 1000
    [] op = "toggle" -> 800
    [] op = "estop"  -> 500

Delay(a, op) == IF a = "desktop" THEN DesktopDelay(op) ELSE TelegramDelay(op)

\* The step of time, in ms: the greatest common divisor of the front end's delays.
Quantum(a) == IF a = "desktop" THEN 500 ELSE 100


(***************************************************************************)
(* The functional updates the handlers hand to setBotStatus, and the       *)
(* toasts they show.  prev is the botStatus at the time the update runs;   *)
(* seen is the botStatus of the render the handler was created in.         *)
(***************************************************************************)

\* TradingControl.handleStartBot: prev => ({...prev, isRunning: true, lastUpdate})
DesktopStartUpdate(prev) ==
  [prev EXCEPT !.isRunning = TRUE, !.lastUpdate = NewDate(prev.lastUpdate)]

\* A stop that forgets the trading flag: {...prev, isRunning: false}.
DesktopStopUpdateKeepsTrading(prev) ==
  [prev EXCEPT !.isRunning = FALSE, !.lastUpdate = NewDate(prev.lastUpdate)]

\* TradingControl.handleStopBot
DesktopStopUpdate(prev) ==
  [prev EXCEPT !.isRunning = FALSE, !.isTradingEnabled = FALSE,
               !.lastUpdate = NewDate(prev.lastUpdate)]

\* A toggle that only ever enables: isTradingEnabled: true in place of
\* !prev.isTradingEnabled.
DesktopToggleUpdateEnableOnly(prev) ==
  [prev EXCEPT !.isTradingEnabled = TRUE,
               !.lastUpdate = NewDate(prev.lastUpdate)]

\* TradingControl.handleToggleTrading
DesktopToggleUpdate(prev) ==
  [prev EXCEPT !.isTradingEnabled = ~prev.isTradingEnabled,
               !.lastUpdate = NewDate(prev.lastUpdate)]

\* TradingControl.handleEmergencyStop
DesktopEmergencyUpdate(prev) ==
  [prev EXCEPT !.isRunning = FALSE, !.isTradingEnabled = FALSE,
               !.lastUpdate = NewDate(prev.lastUpdate)]

\* A start that switches trading on as well.
TelegramStartEnablesTrading(prev) ==
  [prev EXCEPT !.isRunning = TRUE, !.isTradingEnabled = TRUE,
               !.lastUpdate = NewDate(prev.lastUpdate)]

\* Trading.handleStartBot (Telegram)
TelegramStartUpdate(prev) ==
  [prev EXCEPT !.isRunning = TRUE, !.lastUpdate = NewDate(prev.lastUpdate)]

\* Trading.handleStopBot (Telegram)
TelegramStopUpdate(prev) ==
  [prev EXCEPT !.isRunning = FALSE, !.isTradingEnabled = FALSE,
               !.lastUpdate = NewDate(prev.lastUpdate)]

\* Trading.handleToggleTrading (Telegram)
TelegramToggleUpdate(prev) ==
  [prev EXCEPT !.isTradingEnabled = ~prev.isTradingEnabled,
               !.lastUpdate = NewDate(prev.lastUpdate)]

\* Trading.handleEmergencyStop (Telegram)
TelegramEmergencyUpdate(prev) ==
  [prev EXCEPT !.isRunning = FALSE, !.isTradingEnabled = FALSE,
               !.lastUpdate = NewDate(prev.lastUpdate)]

\* The botStatus a completing handler leaves (handleSaveSettings sets none).
StatusAfter(a, op, prev) ==
  CASE op = "start"  -> IF a = "desktop" THEN DesktopStartUpdate(prev)
                                         ELSE TelegramStartUpdate(prev)
    [] op = "stop"   -> IF a = "desktop" THEN DesktopStopUpdate(prev)
                                         ELSE TelegramStopUpdate(prev)
    [] op = "toggle" -> IF a = "desktop" THEN DesktopToggleUpdate(prev)
                                         ELSE TelegramToggleUpdate(prev)
    [] op = "estop"  -> IF a = "desktop" THEN DesktopEmergencyUpdate(prev)
                                         ELSE TelegramEmergencyUpdate(prev)
    [] op = "save"   -> prev

NoToast == [level |-> "none", text |-> ""]

\* toast.success / toast.error of the try block of each desktop handler; the
\* toggle's text is computed from the handler's own botStatus (its closure).
DesktopToast(op, seenTrading) ==
  CASE op = "start"  -> [level |-> "success", text |-> "Trading bot started successfully"]
    [] op = "stop"   -> [level |-> "success", text |-> "Trading bot stopped successfully"]
    [] op = "toggle" -> [level |-> "success",
                         text |-> IF ~seenTrading THEN "Trading enabled"
                                                  ELSE "Trading disabled"]
    [] op = "estop"  -> [level |-> "error",
                         text |-> "Emergency stop activated - All trading halted"]
    [] op = "save"   -> [level |-> "success", text |-> "Settings saved successfully"]

TelegramToast(op, seenTrading) ==
  CASE op = "start"  -> [level |-> "success", text |-> "Trading bot started"]
    [] op = "stop"   -> [level |-> "success", text |-> "Trading bot stopped"]
    [] op = "toggle" -> [level |-> "success",
                         text |-> IF ~seenTrading THEN "Trading enabled"
                                                  ELSE "Trading disabled"]
    [] op = "estop"  -> [level |-> "error", text |-> "Emergency stop activated"]

ToastAfter(a, op, seenTrading) ==
  IF a = "desktop" THEN DesktopToast(op, seenTrading)
                   ELSE TelegramToast(op, seenTrading)

\* The early return of handleToggleTrading.
ToggleRefusedToast(a) ==
  IF a = "desktop"
    THEN [level |-> "error", text |-> "Bot must be running to enable trading"]
    ELSE [level |-> "error", text |-> "Bot must be running first"]

(***************************************************************************)
(* The disabled attributes of the controls of the trading page.            *)
(***************************************************************************)

\* Start Bot: disabled={botStatus.isRunning || isLoading}
StartDisabled == botStatus.isRunning \/ isLoading

\* Stop Bot: disabled={!botStatus.isRunning || isLoading}
StopDisabled == ~botStatus.isRunning \/ isLoading

\* Enable Trading switch: disabled={!botStatus.isRunning || isLoading}
ToggleDisabled == ~botStatus.isRunning \/ isLoading

\* Emergency Stop: disabled={isLoading}
EmergencyStopDisabled == isLoading

\* Save Settings (desktop only): disabled={isLoading}
SaveDisabled == isLoading

(***************************************************************************)
(* Steps.                                                                  *)
(***************************************************************************)

Step(name) == [step |-> name, late |-> FALSE]

\* A handler invocation that has reached its await.
Invocation(op, seenTrading) ==
  [op |-> op, left |-> Delay(app, op), seenTrading |-> seenTrading,
   mounted |-> TRUE, beforeStop |-> FALSE]

\* The click part of a handler: setIsLoading(true), then the timer is set.
Begin(op, seenTrading) ==
  /\ Len(pending) < MaxPending
  /\ isLoading' = TRUE
  /\ pending' = Append(pending, Invocation(op, seenTrading))
  /\ toast' = NoToast
  /\ event' = Step(op)
  /\ UNCHANGED <<app, botStatus, route, engineVars, otherVars>>

\* The router mounts the trading page: useState(false) for isLoading.
OpenTradingPage ==
  /\ route # "trading"
  /\ route' = "trading"
  /\ isLoading' = FALSE
  /\ toast' = NoToast
  /\ event' = Step("open")
  /\ UNCHANGED <<app, botStatus, pending, emergencyStopped, engineVars, otherVars>>

\* The router unmounts the trading page: its state is dropped, and what its
\* pending handlers set on it later is lost; their setBotStatus still acts.
LeaveTradingPage ==
  /\ route = "trading"
  /\ route' = "dashboard"
  /\ isLoading' = FALSE
  /\ pending' = [i \in DOMAIN pending |-> [pending[i] EXCEPT !.mounted = FALSE]]
  /\ toast' = NoToast
  /\ event' = Step("leave")
  /\ UNCHANGED <<app, botStatus, emergencyStopped, engineVars, otherVars>>

StartClick ==
  /\ route = "trading"
  /\ ~StartDisabled
  /\ Begin("start", FALSE)
  /\ emergencyStopped' = FALSE

StopClick ==
  /\ route = "trading"
  /\ ~StopDisabled
  /\ Begin("stop", FALSE)
  /\ UNCHANGED emergencyStopped

\* handleToggleTrading up to its await: the early return, or the invocation.
ToggleClick ==
  /\ route = "trading"
  /\ ~ToggleDisabled
  /\ IF ~botStatus.isRunning
       THEN /\ toast' = ToggleRefusedToast(app)
            /\ event' = Step("toggleRefused")
            /\ UNCHANGED <<app, botStatus, route, isLoading, pending, engineVars, otherVars>>
       ELSE Begin("toggle", botStatus.isTradingEnabled)
  /\ UNCHANGED emergencyStopped

EmergencyStopClick ==
  /\ route = "trading"
  /\ ~EmergencyStopDisabled
  /\ Begin("estop", FALSE)
  /\ UNCHANGED emergencyStopped

SaveSettingsClick ==
  /\ app = "desktop"
  /\ route = "trading"
  /\ ~SaveDisabled
  /\ Begin("save", FALSE)
  /\ UNCHANGED emergencyStopped

\* One quantum of time passes: no timer that is due is passed over.
Tick ==
  /\ pending # << >>
  /\ \A i \in DOMAIN pending : pending[i].left > 0
  /\ pending' = [i \in DOMAIN pending |->
                   [pending[i] EXCEPT !.left = pending[i].left - Quantum(app)]]
  /\ toast' = NoToast
  /\ event' = Step("tick")
  /\ UNCHANGED <<app, botStatus, route, isLoading, emergencyStopped, engineVars, otherVars>>

Remove(seq, i) == SubSeq(seq, 1, i - 1) \o SubSeq(seq, i + 1, Len(seq))

\* Those still pending when an emergency stop takes effect were begun before it.
MarkBeforeStop(seq) == [i \in DOMAIN seq |-> [seq[i] EXCEPT !.beforeStop = TRUE]]

LoadingStuck(p, loading) == loading

\* The finally block of a handler: setIsLoading(false), which acts on the page
\* instance the handler belongs to and is lost once that instance is unmounted.
LoadingAfter(p, loading) == IF p.mounted THEN FALSE ELSE loading

\* The part of handler invocation i after its await: setBotStatus, the toast,
\* and finally setIsLoading(false) on the page instance the handler belongs to.
Complete(i) ==
  LET p == pending[i] IN
  /\ p.left = 0
  /\ botStatus' = StatusAfter(app, p.op, botStatus)
  /\ toast' = ToastAfter(app, p.op, p.seenTrading)
  /\ isLoading' = LoadingAfter(p, isLoading)
  /\ pending' = IF p.op = "estop" THEN MarkBeforeStop(Remove(pending, i))
                                  ELSE Remove(pending, i)
  /\ emergencyStopped' = IF p.op = "estop" THEN TRUE ELSE emergencyStopped
  /\ event' = [step |-> p.op \o "Done", late |-> p.beforeStop]
  /\ UNCHANGED <<app, route, engineVars, otherVars>>

\* App.fetchBotStatus (desktop), on mount and every 30 s: Math.random() decides
\* isRunning and isTradingEnabled independently of each other.
FetchBotStatus ==
  /\ app = "desktop"
  /\ \E r \in BOOLEAN, t \in BOOLEAN :
       botStatus' = [isRunning |-> r, isTradingEnabled |-> t,
                     lastUpdate |-> NewDate(botStatus.lastUpdate)]
  /\ toast' = NoToast
  /\ event' = Step("poll")
  /\ UNCHANGED <<app, route, isLoading, pending, emergencyStopped, engineVars, otherVars>>

(***************************************************************************)
(* What the desktop panel shows of botStatus: the Sidebar's status badge   *)
(* and the badges in the header of the Trading Control page.               *)
(***************************************************************************)

getStatusColor ==
  IF ~botStatus.isRunning THEN "bg-red-500"
  ELSE IF ~botStatus.isTradingEnabled THEN "bg-yellow-500"
  ELSE "bg-green-500"

getStatusTextTradingFirst ==
  IF botStatus.isTradingEnabled THEN "Trading"
  ELSE IF ~botStatus.isRunning THEN "Stopped"
  ELSE "Monitoring"

getStatusText ==
  IF ~botStatus.isRunning THEN "Stopped"
  ELSE IF ~botStatus.isTradingEnabled THEN "Monitoring"
  ELSE "Trading"

getStatusIcon ==
  IF ~botStatus.isRunning THEN "AlertTriangle"
  ELSE IF ~botStatus.isTradingEnabled THEN "Pause"
  ELSE "Activity"

\* The variant of the Sidebar's status Badge.
SidebarBadgeVariant ==
  IF botStatus.isRunning
    THEN (IF botStatus.isTradingEnabled THEN "default" ELSE "secondary")
    ELSE "destructive"

\* The first header badge of the Trading Control page.
HeaderRunningBadge == IF botStatus.isRunning THEN "Running" ELSE "Stopped"

\* The second header badge, 'Trading Active', is rendered at all.
HeaderTradingActiveShown == botStatus.isTradingEnabled

(***************************************************************************)
(* The trading engine behind the panels: TradingEngine, RiskManager and    *)
(* PortfolioLedger.  Exposure is counted in units of a tenth of the        *)
(* portfolio value, the daily loss in dollars.                             *)
(***************************************************************************)

Markets == {"m1", "m2"}

\* The largest size a signal suggests.
MaxSize == 2

\* Signals of one cycle.
MaxSignals == 2

\* The RiskLimits the runs are checked under.
LimitChoices ==
  [maxPortfolioExposure : {3}, maxPositionSize : {2}, maxDailyTrades : {2},
   maxDailyLoss : {500}, stopLossEnabled : {TRUE}, maxCorrelation : {8}]

\* Signals a strategy hands to the RiskManager (Hold is not handed on).
Signals == [market : Markets, direction : {"Buy", "Sell"}, size : 1..MaxSize]

\* The day's loss, below, at and above the limit.
LossLevels == {0, 500, 510}

\* What the latest prices say at a risk check: whether the position in the
\* signal's market has reached the stop-loss percentage, and the correlation of
\* the two markets in tenths.
PriceData == [stopHit : BOOLEAN, corr : {5, 9}]

\* Total exposure of a portfolio.
TotalExposure(exposure) == exposure["m1"] + exposure["m2"]

Approved(qty) == [kind |-> "Approved", reason |-> "", qty |-> qty]

Rejected(reason) == [kind |-> "Rejected", reason |-> reason, qty |-> 0]

\* Check 1: the daily trade count has reached max_daily_trades.
TradeLimitReached(count, lim) == count >= lim.maxDailyTrades

LossLimitReachedStrict(loss, lim) == loss > lim.maxDailyLoss

\* Check 2: the daily realized and unrealized loss has reached max_daily_loss.
LossLimitReached(loss, lim) == loss >= lim.maxDailyLoss

\* Check 3: the order scaled down to the headroom of the position.
PositionScaled(sig, exposure, lim) ==
  IF exposure[sig.market] + sig.size > lim.maxPositionSize
    THEN lim.maxPositionSize - exposure[sig.market]
    ELSE sig.size

\* Check 4: the order scaled down to the headroom of the portfolio.
ExposureScaled(qty, exposure, lim) ==
  IF TotalExposure(exposure) + qty > lim.maxPortfolioExposure
    THEN lim.maxPortfolioExposure - TotalExposure(exposure)
    ELSE qty

\* The stop-loss is read only while it is switched off.
StopLossTriggeredWhenDisabled(sig, exposure, data, lim) ==
  ~lim.stopLossEnabled /\ exposure[sig.market] > 0 /\ data.stopHit

\* Check 5: stop-loss is enabled and the position held in the signal's market
\* has an unrealized loss at or above stop_loss_percentage.
StopLossTriggered(sig, exposure, data, lim) ==
  lim.stopLossEnabled /\ exposure[sig.market] > 0 /\ data.stopHit

\* Check 6: same-direction exposure in a market correlated above the limit.
CorrelationBreached(sig, exposure, data, lim) ==
  /\ data.corr > lim.maxCorrelation
  /\ \E o \in Markets \ {sig.market} : exposure[o] > 0

\* The checks with the daily loss tested before the daily trade count.
EvaluateLossFirst(sig, exposure, loss, data, lim, count) ==
  IF LossLimitReached(loss, lim) THEN Rejected("DailyLossLimitExceeded")
  ELSE IF TradeLimitReached(count, lim) THEN Rejected("DailyTradeLimitExceeded")
  ELSE IF sig.direction = "Sell" THEN
    (IF exposure[sig.market] < sig.size THEN Approved(exposure[sig.market])
                                        ELSE Approved(sig.size))
  ELSE LET q3 == PositionScaled(sig, exposure, lim)
           q4 == ExposureScaled(q3, exposure, lim)
       IN IF q3 <= 0 THEN Rejected("PositionLimitExceeded")
          ELSE IF q4 <= 0 THEN Rejected("ExposureLimitExceeded")
          ELSE IF StopLossTriggered(sig, exposure, data, lim)
            THEN Rejected("StopLossActive")
          ELSE IF CorrelationBreached(sig, exposure, data, lim)
            THEN Rejected("CorrelationLimitExceeded")
          ELSE Approved(q4)

\* RiskManager.evaluate: the checks in their order, the first failing one decides.
\* A Sell closes (part of) the position held and adds no exposure.
Evaluate(sig, exposure, loss, data, lim, count) ==
  IF TradeLimitReached(count, lim) THEN Rejected("DailyTradeLimitExceeded")
  ELSE IF LossLimitReached(loss, lim) THEN Rejected("DailyLossLimitExceeded")
  ELSE IF sig.direction = "Sell" THEN
    (IF exposure[sig.market] < sig.size THEN Approved(exposure[sig.market])
                                        ELSE Approved(sig.size))
  ELSE LET q3 == PositionScaled(sig, exposure, lim)
           q4 == ExposureScaled(q3, exposure, lim)
       IN IF q3 <= 0 THEN Rejected("PositionLimitExceeded")
          ELSE IF q4 <= 0 THEN Rejected("ExposureLimitExceeded")
          ELSE IF StopLossTriggered(sig, exposure, data, lim)
            THEN Rejected("StopLossActive")
          ELSE IF CorrelationBreached(sig, exposure, data, lim)
            THEN Rejected("CorrelationLimitExceeded")
          ELSE Approved(q4)

\* The order an approved signal becomes, with its (possibly scaled) quantity.
Order(sig, qty) == [market |-> sig.market, direction |-> sig.direction, qty |-> qty]

\* An order applied to a portfolio.
Apply(exposure, order) ==
  [exposure EXCEPT ![order.market] =
     IF order.direction = "Buy" THEN @ + order.qty ELSE @ - order.qty]

SpendNothing(state, order) == state

\* An approved order spends its headroom in the cycle's PortfolioState, so that
\* the next signal of the cycle is evaluated against what is left.
Spend(state, order) == Apply(state, order)

\* Every approved order goes to the execution client.
SubmitAlways(state, queue, order) == Append(queue, order)

\* An approved order is submitted to the execution client in Running(Trading)
\* and discarded in Running(Monitoring).
Submit(state, queue, order) ==
  IF state = "Trading" THEN Append(queue, order) ELSE queue

\* The prices a risk check of the signal reads (a Sell reads none).
PricesFor(sig) ==
  IF sig.direction = "Sell" THEN {[stopHit |-> FALSE, corr |-> 5]} ELSE PriceData

NoDecision == [kind |-> "None", reason |-> "", serial |-> 0]

EngineIdle ==
  /\ engineState = "Stopped"
  /\ limits \in LimitChoices
  /\ ledger = [m \in Markets |-> 0]
  /\ dailyLoss = 0
  /\ snapshot = [m \in Markets |-> 0]
  /\ signals = 0
  /\ orders = << >>
  /\ dailyTrades = 0
  /\ decision = NoDecision

\* A JavaScript number as far as the settings need it: an integer or NaN.
Num(n) == [nan |-> FALSE, n |-> n]

NaN == [nan |-> TRUE, n |-> 0]

\* useState({..., tradingInterval: 300, ..., maxDailyTrades: 50, ...})
InitialTradingSettings == [tradingInterval |-> Num(300), maxDailyTrades |-> Num(50)]

\* useState({emergencyStopEnabled: false, maxDailyLoss: 500, maxDrawdown: 20})
InitialEmergencySettings ==
  [emergencyStopEnabled |-> FALSE, maxDailyLoss |-> Num(500), maxDrawdown |-> Num(20)]

SettingsUntouched ==
  /\ tradingSettings = InitialTradingSettings
  /\ emergencySettings = InitialEmergencySettings

\* A decimal amount, kept exactly: the fraction n/d in lowest terms, d > 0.
RECURSIVE GCD(_, _)
GCD(a, b) == IF b = 0 THEN a ELSE GCD(b, a % b)

Abs(x) == IF x < 0 THEN 0 - x ELSE x

Frac(n, d) ==
  LET g == GCD(Abs(n), d) IN [n |-> n \div g, d |-> d \div g]

Zero == [n |-> 0, d |-> 1]

\* Before the opening trade there is no position.
NoPosition ==
  [status |-> "None", quantity |-> 0, averagePrice |-> Zero, realizedPnl |-> Zero]

LedgerIdle ==
  /\ position = NoPosition
  /\ trades = << >>

\* A key Redis does not hold.
NoKey == [zset |-> {}, expires |-> 0]

\* No request has reached the rate limiter.
LimiterIdle ==
  /\ now = 0
  /\ redis = NoKey
  /\ quota = [limit |-> 1, window |-> 1]
  /\ admitted = << >>

\* No caller of the RiskManager is looked at.
NoProbe == [sig |-> [market |-> "m1", direction |-> "Buy", size |-> 1],
            data |-> [stopHit |-> FALSE, corr |-> 5],
            first |-> [kind |-> "None", reason |-> "", loss |-> 0]]

\* start(): Stopped -> Running(Monitoring); the restart after an emergency stop.
EngineStart ==
  /\ engineState \in {"Stopped", "EmergencyStopped"}
  /\ engineState' = "Monitoring"
  /\ UNCHANGED <<limits, ledger, dailyLoss, snapshot, signals, orders, dailyTrades,
                 decision, uiVars, otherVars>>

\* enableTrading(): Running(Monitoring) -> Running(Trading).  A cycle runs in
\* one mode: the change takes effect between cycles.
EngineEnableTrading ==
  /\ engineState = "Monitoring"
  /\ signals = 0
  /\ engineState' = "Trading"
  /\ UNCHANGED <<limits, ledger, dailyLoss, snapshot, signals, orders, dailyTrades,
                 decision, uiVars, otherVars>>

\* disableTrading(): Running(Trading) -> Running(Monitoring), between cycles.
EngineDisableTrading ==
  /\ engineState = "Trading"
  /\ signals = 0
  /\ engineState' = "Monitoring"
  /\ UNCHANGED <<limits, ledger, dailyLoss, snapshot, signals, orders, dailyTrades,
                 decision, uiVars, otherVars>>

\* stop(): any Running(*) -> Stopped; what the cycle has not executed is dropped.
EngineStop ==
  /\ engineState \in {"Monitoring", "Trading"}
  /\ engineState' = "Stopped"
  /\ signals' = 0
  /\ orders' = << >>
  /\ UNCHANGED <<limits, ledger, dailyLoss, snapshot, dailyTrades, decision, uiVars, otherVars>>

\* emergencyStop(): any state -> EmergencyStopped; pending signal evaluation is
\* halted and outstanding unexecuted orders are cancelled.
EngineEmergencyStop ==
  /\ engineState' = "EmergencyStopped"
  /\ signals' = 0
  /\ orders' = << >>
  /\ UNCHANGED <<limits, ledger, dailyLoss, snapshot, dailyTrades, decision, uiVars, otherVars>>

\* Prices move: the day's loss changes.
MarketMove ==
  /\ dailyLoss' \in LossLevels \ {dailyLoss}
  /\ UNCHANGED <<engineState, limits, ledger, snapshot, signals, orders,
                 dailyTrades, decision, uiVars, otherVars>>

\* The day ends: the rolling daily counter and the day's loss start again.
NewDay ==
  /\ signals = 0
  /\ orders = << >>
  /\ dailyTrades' = 0
  /\ dailyLoss' = 0
  /\ UNCHANGED <<engineState, limits, ledger, snapshot, signals, orders,
                 decision, uiVars, otherVars>>

\* A cycle that begins on its interval, whatever the last one has left.
BeginCycleOnTimer ==
  /\ engineState \in {"Monitoring", "Trading"}
  /\ signals = 0
  /\ signals' \in 1..MaxSignals
  /\ snapshot' = ledger
  /\ UNCHANGED <<engineState, limits, ledger, dailyLoss, orders, dailyTrades,
                 decision, uiVars, otherVars>>

\* A cycle begins once the last one's ledger updates are committed: the
\* strategies generate signals and PortfolioState is recomputed from the ledger.
\* What each signal says is read when it is handed to the RiskManager.
BeginCycle ==
  /\ engineState \in {"Monitoring", "Trading"}
  /\ signals = 0
  /\ orders = << >>
  /\ signals' \in 1..MaxSignals
  /\ snapshot' = ledger
  /\ UNCHANGED <<engineState, limits, ledger, dailyLoss, orders, dailyTrades,
                 decision, uiVars, otherVars>>

\* The next signal of the cycle goes to the RiskManager, serially, against the
\* cycle's PortfolioState; an approved order spends its headroom there and, in
\* Running(Trading), is submitted; a DailyLossLimitExceeded halts the engine.
EvaluateNext ==
  /\ engineState \in {"Monitoring", "Trading"}
  /\ signals > 0
  /\ \E sig \in Signals : \E data \in PricesFor(sig) :
     LET d == Evaluate(sig, snapshot, dailyLoss, data, limits, dailyTrades)
     IN /\ decision' = [kind |-> d.kind, reason |-> d.reason,
                        serial |-> 1 - decision.serial]
        /\ IF d.reason = "DailyLossLimitExceeded"
             THEN /\ engineState' = "EmergencyStopped"
                  /\ signals' = 0
                  /\ orders' = << >>
                  /\ UNCHANGED <<snapshot, dailyTrades>>
             ELSE /\ signals' = signals - 1
                  /\ UNCHANGED engineState
                  /\ IF d.kind = "Approved"
                       THEN /\ snapshot' = Spend(snapshot, Order(sig, d.qty))
                            /\ dailyTrades' = dailyTrades + 1
                            /\ orders' = Submit(engineState, orders, Order(sig, d.qty))
                       ELSE UNCHANGED <<snapshot, dailyTrades, orders>>
  /\ UNCHANGED <<limits, ledger, dailyLoss, uiVars, otherVars>>

\* The execution client confirms a fill: the ledger is updated.
ApplyFill ==
  /\ orders # << >>
  /\ ledger' = Apply(ledger, Head(orders))
  /\ orders' = Tail(orders)
  /\ UNCHANGED <<engineState, limits, dailyLoss, snapshot, signals, dailyTrades,
                 decision, uiVars, otherVars>>

(***************************************************************************)
(* The Strategies page of the desktop panel.  Settings that sliders divide *)
(* by 100 are kept in hundredths.                                          *)
(***************************************************************************)

StrategyIds == {"sentiment", "arbitrage"}

StrategyName(id) ==
  IF id = "sentiment" THEN "Advanced Sentiment Analysis" ELSE "Statistical Arbitrage"

\* useState of strategies: both enabled, allocations 60 and 40.
InitialStrategies ==
  [id \in StrategyIds |->
     IF id = "sentiment"
       THEN [enabled |-> TRUE, allocation |-> 60,
             performance |-> [totalPnL |-> 1120, totalTrades |-> 79],
             settings |-> [threshold |-> 70]]
       ELSE [enabled |-> TRUE, allocation |-> 40,
             performance |-> [totalPnL |-> 660, totalTrades |-> 26],
             settings |-> [threshold |-> 70]]]

NoStrategyEvent == [op |-> "none", id |-> "none", toast |-> ""]

StrategiesIdle ==
  /\ strategies = InitialStrategies
  /\ strategyEvent = NoStrategyEvent

Init ==
  /\ app \in Apps
  /\ botStatus = InitialBotStatus(app)
  /\ route = "dashboard"
  /\ isLoading = FALSE
  /\ pending = << >>
  /\ toast = NoToast
  /\ event = Step("init")
  /\ emergencyStopped = FALSE
  /\ EngineIdle
  /\ probe = NoProbe
  /\ SettingsUntouched
  /\ LimiterIdle
  /\ LedgerIdle
  /\ StrategiesIdle

Next ==
  \/ OpenTradingPage
  \/ LeaveTradingPage
  \/ StartClick
  \/ StopClick
  \/ ToggleClick
  \/ EmergencyStopClick
  \/ SaveSettingsClick
  \/ Tick
  \/ \E i \in DOMAIN pending : Complete(i)
  \/ FetchBotStatus

Spec == Init /\ [][Next]_vars

\* The event loop runs every timer that is due and every callback that is ready.
LiveSpec ==
  Spec /\ WF_vars(Tick) /\ WF_vars(\E i \in DOMAIN pending : Complete(i))

\* The engine alone, behind an idle panel.
EngineInit ==
  /\ app = "desktop"
  /\ botStatus = InitialBotStatus(app)
  /\ route = "dashboard"
  /\ isLoading = FALSE
  /\ pending = << >>
  /\ toast = NoToast
  /\ event = Step("init")
  /\ emergencyStopped = FALSE
  /\ EngineIdle
  /\ probe = NoProbe
  /\ SettingsUntouched
  /\ LimiterIdle
  /\ LedgerIdle
  /\ StrategiesIdle

EngineNext ==
  \/ EngineStart
  \/ EngineEnableTrading
  \/ EngineDisableTrading
  \/ EngineStop
  \/ EngineEmergencyStop
  \/ MarketMove
  \/ NewDay
  \/ BeginCycle
  \/ EvaluateNext
  \/ ApplyFill

EngineSpec == EngineInit /\ [][EngineNext]_vars

(***************************************************************************)
(* The RiskManager on its own: a caller hands it a signal and a            *)
(* PortfolioState (exposure, daily loss, prices) again and again; between  *)
(* the calls the prices may move and the day may end.  The RiskManager     *)
(* keeps its rolling daily counter.                                        *)
(***************************************************************************)

\* The limits the RiskManager is handed: those of the engine, stop-loss on or off.
ProbeLimits == {[l EXCEPT !.stopLossEnabled = b] : l \in LimitChoices, b \in BOOLEAN}

\* The exposures a PortfolioState can show: within the limits.
ProbeStates(lim) ==
  {e \in [Markets -> 0..lim.maxPositionSize] :
     TotalExposure(e) <= lim.maxPortfolioExposure}

RiskInit ==
  /\ app = "desktop"
  /\ botStatus = InitialBotStatus(app)
  /\ route = "dashboard"
  /\ isLoading = FALSE
  /\ pending = << >>
  /\ toast = NoToast
  /\ event = Step("init")
  /\ emergencyStopped = FALSE
  /\ engineState = "Monitoring"
  /\ limits \in ProbeLimits
  /\ ledger = [m \in Markets |-> 0]
  /\ snapshot \in ProbeStates(limits)
  /\ dailyLoss \in LossLevels
  /\ signals = 0
  /\ orders = << >>
  /\ dailyTrades = 0
  /\ decision = NoDecision
  /\ probe \in [sig : Signals, data : PriceData,
                 first : {[kind |-> "None", reason |-> "", loss |-> 0]}]
  /\ SettingsUntouched
  /\ LimiterIdle
  /\ LedgerIdle
  /\ StrategiesIdle

\* evaluate(signal, portfolioState, limits): the decision, and the rolling
\* daily counter counts an approved trade.
RiskEvaluate ==
  LET d == Evaluate(probe.sig, snapshot, dailyLoss, probe.data, limits, dailyTrades)
  IN /\ decision' = [kind |-> d.kind, reason |-> d.reason,
                     serial |-> 1 - decision.serial]
     /\ dailyTrades' = IF d.kind = "Approved" THEN dailyTrades + 1 ELSE dailyTrades
     /\ probe' = IF probe.first.kind = "None"
                   THEN [probe EXCEPT !.first = [kind |-> d.kind, reason |-> d.reason,
                                                 loss |-> dailyLoss]]
                   ELSE probe
     /\ UNCHANGED <<engineState, limits, ledger, dailyLoss, snapshot, signals,
                    orders, uiVars, tradingSettings, emergencySettings,
                    now, redis, quota, admitted, position, trades, strategies, strategyEvent>>

RiskNext ==
  \/ RiskEvaluate
  \/ MarketMove
  \/ NewDay

RiskSpec == RiskInit /\ [][RiskNext]_vars

(***************************************************************************)
(* The settings of the desktop trading page: the numeric inputs hand       *)
(* parseInt(e.target.value) to the state, and Save Settings runs           *)
(* handleSaveSettings.                                                     *)
(***************************************************************************)

\* e.target.value of an input of type number: what the operator has typed,
\* character by character (emptied, below and above the ranges, negative).
Typed == {<< >>, <<"4", "5">>, <<"3", "0", "0">>, <<"-", "5">>,
          <<"9", "9", "9", "9">>}

IsDigit(c) == c \in {"0", "1", "2", "3", "4", "5", "6", "7", "8", "9"}

DigitValue(c) ==
  CASE c = "0" -> 0 [] c = "1" -> 1 [] c = "2" -> 2 [] c = "3" -> 3 [] c = "4" -> 4
    [] c = "5" -> 5 [] c = "6" -> 6 [] c = "7" -> 7 [] c = "8" -> 8 [] c = "9" -> 9

\* The value of the digits text starts with, after the value acc.
RECURSIVE LeadingDigits(_, _)
LeadingDigits(text, acc) ==
  IF text = << >> \/ ~IsDigit(Head(text)) THEN acc
  ELSE LeadingDigits(Tail(text), 10 * acc + DigitValue(Head(text)))

\* parseInt(text): an optional sign and the leading digits; NaN without a digit.
ParseInt(text) ==
  LET signed == text # << >> /\ Head(text) \in {"-", "+"}
      digits == IF signed THEN Tail(text) ELSE text
  IN IF digits = << >> \/ ~IsDigit(Head(digits)) THEN NaN
     ELSE IF signed /\ Head(text) = "-" THEN Num(0 - LeadingDigits(digits, 0))
     ELSE Num(LeadingDigits(digits, 0))

\* A step of the settings that shows no toast.
SettingsStep ==
  /\ app = "desktop"
  /\ route = "trading"
  /\ toast' = NoToast
  /\ event' = Step("change")
  /\ UNCHANGED <<app, botStatus, route, isLoading, pending, emergencyStopped,
                 engineVars, probe, now, redis, quota, admitted, position, trades, strategies, strategyEvent>>

\* onChange of Trading Interval: {...prev, tradingInterval: parseInt(e.target.value)}
TradingIntervalChange ==
  /\ \E text \in Typed :
       tradingSettings' = [tradingSettings EXCEPT !.tradingInterval = ParseInt(text)]
  /\ SettingsStep
  /\ UNCHANGED emergencySettings

\* onChange of Max Daily Trades
MaxDailyTradesChange ==
  /\ \E text \in Typed :
       tradingSettings' = [tradingSettings EXCEPT !.maxDailyTrades = ParseInt(text)]
  /\ SettingsStep
  /\ UNCHANGED emergencySettings

\* onCheckedChange of Enable Automatic Emergency Stop
EmergencyStopEnabledChange ==
  /\ emergencySettings' = [emergencySettings EXCEPT
                             !.emergencyStopEnabled = ~@]
  /\ SettingsStep
  /\ UNCHANGED tradingSettings

\* onChange of Max Daily Loss, rendered while the automatic stop is enabled
MaxDailyLossChange ==
  /\ emergencySettings.emergencyStopEnabled
  /\ \E text \in Typed :
       emergencySettings' = [emergencySettings EXCEPT !.maxDailyLoss = ParseInt(text)]
  /\ SettingsStep
  /\ UNCHANGED tradingSettings

\* onChange of Max Drawdown, rendered while the automatic stop is enabled
MaxDrawdownChange ==
  /\ emergencySettings.emergencyStopEnabled
  /\ \E text \in Typed :
       emergencySettings' = [emergencySettings EXCEPT !.maxDrawdown = ParseInt(text)]
  /\ SettingsStep
  /\ UNCHANGED tradingSettings

\* The desktop trading page, open.
SettingsInit ==
  /\ app = "desktop"
  /\ botStatus = InitialBotStatus(app)
  /\ route = "trading"
  /\ isLoading = FALSE
  /\ pending = << >>
  /\ toast = NoToast
  /\ event = Step("init")
  /\ emergencyStopped = FALSE
  /\ EngineIdle
  /\ probe = NoProbe
  /\ SettingsUntouched
  /\ LimiterIdle
  /\ LedgerIdle
  /\ StrategiesIdle

SettingsNext ==
  \/ TradingIntervalChange
  \/ MaxDailyTradesChange
  \/ EmergencyStopEnabledChange
  \/ MaxDailyLossChange
  \/ MaxDrawdownChange
  \/ SaveSettingsClick
  \/ Tick
  \/ \E i \in DOMAIN pending : Complete(i)

SettingsSpec == SettingsInit /\ [][SettingsNext]_vars

(***************************************************************************)
(* The sliding-window rate limiter of the deployment guide,                *)
(* RateLimiter.is_allowed(key, limit, window), for one key.  Redis holds   *)
(* the key as a sorted set: members are unique, each with a score.         *)
(***************************************************************************)

\* The last second of the runs.
MaxClock == 3

\* Requests admitted in a run.
MaxAdmitted == 4

\* The limits and windows (in seconds) the limiter is called with.
Quotas == [limit : 1..2, window : 1..2]

\* ZREMRANGEBYSCORE key min max: the members with min <= score <= max go.
ZRemRangeByScore(zset, min, max) ==
  {e \in zset : ~(e.score >= min /\ e.score <= max)}

\* ZCARD key
ZCard(zset) == Cardinality(zset)

\* ZADD key {member: score}: a member the set holds gets the new score.
ZAdd(zset, member, score) ==
  {e \in zset : e.member # member} \cup {[member |-> member, score |-> score]}

\* The key as a command finds it: gone once its time to live is over.
Stored == IF redis.zset # {} /\ now >= redis.expires THEN {} ELSE redis.zset

\* is_allowed(key, limit, window) for a request arriving now.
IsAllowed ==
  LET current_time == now
      window_start == current_time - quota.window
      kept == ZRemRangeByScore(Stored, 0, window_start)
      current_requests == ZCard(kept)
  IN /\ Len(admitted) < MaxAdmitted
     /\ IF current_requests >= quota.limit
          THEN /\ redis' = [redis EXCEPT !.zset = kept]
               /\ UNCHANGED admitted
          ELSE /\ redis' = [zset |-> ZAdd(kept, ToString(current_time), current_time),
                            expires |-> current_time + quota.window]
               /\ admitted' = Append(admitted, current_time)
     /\ UNCHANGED <<now, quota, uiVars, engineVars, probe, tradingSettings,
                    emergencySettings, position, trades, strategies, strategyEvent>>

\* A second passes.
ClockTick ==
  /\ now < MaxClock
  /\ now' = now + 1
  /\ UNCHANGED <<redis, quota, admitted, uiVars, engineVars, probe,
                 tradingSettings, emergencySettings, position, trades, strategies, strategyEvent>>

RateInit ==
  /\ app = "desktop"
  /\ botStatus = InitialBotStatus(app)
  /\ route = "dashboard"
  /\ isLoading = FALSE
  /\ pending = << >>
  /\ toast = NoToast
  /\ event = Step("init")
  /\ emergencyStopped = FALSE
  /\ EngineIdle
  /\ probe = NoProbe
  /\ SettingsUntouched
  /\ now = 0
  /\ redis = NoKey
  /\ quota \in Quotas
  /\ admitted = << >>
  /\ LedgerIdle
  /\ StrategiesIdle

RateNext ==
  \/ IsAllowed
  \/ ClockTick

RateSpec == RateInit /\ [][RateNext]_vars

(***************************************************************************)
(* The PortfolioLedger, for one position: confirmed trades are appended    *)
(* to the position's Trades and applied to the position in the same step.  *)
(* Prices are in cents.                                                    *)
(***************************************************************************)

\* Trades of a position in a run.
MaxTrades == 4

\* Contracts of one trade.
MaxQuantity == 2

\* Execution prices, in cents.
Prices == {40, 60}

StatusStaysOpen(quantity) == "Open"

\* Open while contracts are held, Closed once none is.
StatusOf(quantity) == IF quantity > 0 THEN "Open" ELSE "Closed"

\* The sale's proceeds taken out of the position's cost: the remainder is
\* priced at what is left of the cost.
ReducedAtProceeds(pos, quantity, price) ==
  LET left == pos.quantity - quantity
      gain == Frac((price * pos.averagePrice.d - pos.averagePrice.n) * quantity,
                   pos.averagePrice.d)
  IN [status |-> StatusOf(left),
      quantity |-> left,
      averagePrice |->
        IF left = 0 THEN pos.averagePrice
        ELSE Frac(pos.averagePrice.n * pos.quantity
                    - price * quantity * pos.averagePrice.d,
                  pos.averagePrice.d * left),
      realizedPnl |-> Frac(pos.realizedPnl.n * gain.d + gain.n * pos.realizedPnl.d,
                           pos.realizedPnl.d * gain.d)]

\* An adding (or opening) trade: the average price is the quantity-weighted
\* mean of the price held and the price bought at.
Added(pos, quantity, price) ==
  LET total == pos.quantity + quantity
  IN [status |-> StatusOf(total),
      quantity |-> total,
      averagePrice |-> Frac(pos.averagePrice.n * pos.quantity
                              + price * quantity * pos.averagePrice.d,
                            pos.averagePrice.d * total),
      realizedPnl |-> pos.realizedPnl]

\* A reducing or closing trade: (price - average price) per contract is
\* realized, the average price of the remainder stays, and closing sets
\* quantity 0 and status Closed with the trade.
Reduced(pos, quantity, price) ==
  LET left == pos.quantity - quantity
      gain == Frac((price * pos.averagePrice.d - pos.averagePrice.n) * quantity,
                   pos.averagePrice.d)
  IN [status |-> StatusOf(left),
      quantity |-> left,
      averagePrice |-> pos.averagePrice,
      realizedPnl |-> Frac(pos.realizedPnl.n * gain.d + gain.n * pos.realizedPnl.d,
                           pos.realizedPnl.d * gain.d)]

\* The immutable fact of a trade; timestamps follow the order of confirmation.
Trade(side, quantity, price) ==
  [side |-> side, quantity |-> quantity, price |-> price,
   timestamp |-> Len(trades) + 1]

\* A confirmed Buy: the trade is recorded and applied in one step.
ApplyBuy ==
  /\ Len(trades) < MaxTrades
  /\ position.status # "Closed"
  /\ \E quantity \in 1..MaxQuantity, price \in Prices :
       /\ trades' = Append(trades, Trade("Buy", quantity, price))
       /\ position' = Added(position, quantity, price)
  /\ UNCHANGED <<uiVars, engineVars, probe, tradingSettings, emergencySettings,
                 now, redis, quota, admitted, strategies, strategyEvent>>

\* A confirmed Sell of contracts held: reduces the position or closes it.
ApplySell ==
  /\ Len(trades) < MaxTrades
  /\ position.status = "Open"
  /\ \E quantity \in 1..MaxQuantity, price \in Prices :
       /\ quantity <= position.quantity
       /\ trades' = Append(trades, Trade("Sell", quantity, price))
       /\ position' = Reduced(position, quantity, price)
  /\ UNCHANGED <<uiVars, engineVars, probe, tradingSettings, emergencySettings,
                 now, redis, quota, admitted, strategies, strategyEvent>>

LedgerInit ==
  /\ app = "desktop"
  /\ botStatus = InitialBotStatus(app)
  /\ route = "dashboard"
  /\ isLoading = FALSE
  /\ pending = << >>
  /\ toast = NoToast
  /\ event = Step("init")
  /\ emergencyStopped = FALSE
  /\ EngineIdle
  /\ probe = NoProbe
  /\ SettingsUntouched
  /\ LimiterIdle
  /\ LedgerIdle
  /\ StrategiesIdle

LedgerNext ==
  \/ ApplyBuy
  \/ ApplySell

LedgerSpec == LedgerInit /\ [][LedgerNext]_vars

(***************************************************************************)
(* The handlers of the Strategies page.                                    *)
(***************************************************************************)

AllocationMin == 0
AllocationMax == 100
AllocationStep == 5

\* The values the allocation Slider can hand to onValueChange.
SliderValues ==
  {v \in AllocationMin..AllocationMax : (v - AllocationMin) % AllocationStep = 0}

\* The values of the minConfidence and minCorrelation sliders (min 50, max 100,
\* step 5), before the division by 100.
ThresholdValues == {v \in 50..100 : v % 5 = 0}

ToggleEnablesOnly(prev, strategyId) ==
  [id \in StrategyIds |->
     IF id = strategyId THEN [prev[id] EXCEPT !.enabled = TRUE] ELSE prev[id]]

\* The updater of handleToggleStrategy.
ToggleStrategy(prev, strategyId) ==
  [id \in StrategyIds |->
     IF id = strategyId THEN [prev[id] EXCEPT !.enabled = ~prev[id].enabled]
                        ELSE prev[id]]

AllocationTargetOnly(prev, strategyId, newAllocation) ==
  [id \in StrategyIds |->
     IF id = strategyId THEN [prev[id] EXCEPT !.allocation = newAllocation]
                        ELSE prev[id]]

\* The updater of handleAllocationChange: the target takes the new value and
\* every other strategy the remainder, whatever its enabled flag.
AllocationChange(prev, strategyId, newAllocation) ==
  LET remainingAllocation == 100 - newAllocation IN
  [id \in StrategyIds |->
     IF id = strategyId THEN [prev[id] EXCEPT !.allocation = newAllocation]
                        ELSE [prev[id] EXCEPT !.allocation = remainingAllocation]]

\* The updater of handleSettingChange.
SettingChange(prev, strategyId, value) ==
  [id \in StrategyIds |->
     IF id = strategyId THEN [prev[id] EXCEPT !.settings.threshold = value]
                        ELSE prev[id]]

StrategyStep ==
  UNCHANGED <<uiVars, engineVars, probe, tradingSettings, emergencySettings,
              now, redis, quota, admitted, position, trades>>

\* The Switch of a strategy card; the toast is worded from the state rendered.
HandleToggleStrategy ==
  \E strategyId \in StrategyIds :
    /\ strategies' = ToggleStrategy(strategies, strategyId)
    /\ strategyEvent' =
         [op |-> "toggle", id |-> strategyId,
          toast |-> StrategyName(strategyId) \o
                    (IF strategies[strategyId].enabled THEN " disabled" ELSE " enabled")]
    /\ StrategyStep

\* The allocation Slider of a strategy card: disabled={!strategy.enabled}.
HandleAllocationChange ==
  \E strategyId \in StrategyIds, newAllocation \in SliderValues :
    /\ strategies[strategyId].enabled
    /\ strategies' = AllocationChange(strategies, strategyId, newAllocation)
    /\ strategyEvent' = [op |-> "allocation", id |-> strategyId, toast |-> ""]
    /\ StrategyStep

\* A threshold slider of the settings tabs.
HandleSettingChange ==
  \E strategyId \in StrategyIds, value \in ThresholdValues :
    /\ strategies' = SettingChange(strategies, strategyId, value)
    /\ strategyEvent' = [op |-> "setting", id |-> strategyId, toast |-> ""]
    /\ StrategyStep

\* Save All Settings: a toast and nothing else.
SaveStrategies ==
  /\ strategyEvent' = [op |-> "save", id |-> "none",
                       toast |-> "Strategy settings saved successfully"]
  /\ UNCHANGED strategies
  /\ StrategyStep

StrategiesInit ==
  /\ app = "desktop"
  /\ botStatus = InitialBotStatus(app)
  /\ route = "dashboard"
  /\ isLoading = FALSE
  /\ pending = << >>
  /\ toast = NoToast
  /\ event = Step("init")
  /\ emergencyStopped = FALSE
  /\ EngineIdle
  /\ probe = NoProbe
  /\ SettingsUntouched
  /\ LimiterIdle
  /\ LedgerIdle
  /\ StrategiesIdle

StrategiesNext ==
  \/ HandleToggleStrategy
  \/ HandleAllocationChange
  \/ HandleSettingChange
  \/ SaveStrategies

StrategiesSpec == StrategiesInit /\ [][StrategiesNext]_vars

(***************************************************************************)
(* Properties.                                                             *)
(***************************************************************************)

\* C1: in every reachable botStatus, isTradingEnabled = TRUE implies
\* isRunning = TRUE (the engine is never 'trading enabled while not running').
C1_TradingImpliesRunning == botStatus.isTradingEnabled => botStatus.isRunning

\* C2: a control operation begun before an emergency stop and completing after
\* it took effect neither sets the bot running nor turns trading on.
C2_NoLateEffectAfterEmergencyStop ==
  [][event'.late =>
       /\ botStatus'.isRunning => botStatus.isRunning
       /\ botStatus'.isTradingEnabled => botStatus.isTradingEnabled]_vars

\* C3: the emergency stop can be invoked in every state of the trading page,
\* also while another control operation is in flight.
C3_EmergencyStopAlwaysAvailable == route = "trading" => ~EmergencyStopDisabled

\* C4: after an emergency stop the bot is neither running nor trading until an
\* operator invokes start: no timer or status poll sets either flag again.
C4_StaysStoppedUntilStart ==
  emergencyStopped => ~botStatus.isRunning /\ ~botStatus.isTradingEnabled

\* C7: a start completing in a state in which the bot is not running leaves
\* Running(Monitoring): isRunning = TRUE and isTradingEnabled = FALSE.
C7_StartGivesMonitoring ==
  [][(event'.step = "startDone" /\ ~botStatus.isRunning) =>
       (botStatus'.isRunning /\ ~botStatus'.isTradingEnabled)]_vars

\* C8: start fails if the bot is already running: a start taking effect in a
\* state with isRunning = TRUE leaves botStatus (isRunning, isTradingEnabled,
\* lastUpdate) unchanged.
C8_StartFailsWhenRunning ==
  [][(event'.step = "startDone" /\ botStatus.isRunning) =>
       botStatus' = botStatus]_vars

\* C9: a trading toggle while the bot is not running is a signalled no-op: the
\* refused toggle reports an error, sets no isLoading and changes no botStatus,
\* and no toggle taking effect while the bot is not running enables trading.
C9_ToggleWhileStoppedIsNoOp ==
  [][/\ event'.step = "toggleRefused" =>
          (toast'.level = "error" /\ isLoading' = isLoading /\ botStatus' = botStatus)
     /\ (event'.step = "toggleDone" /\ ~botStatus.isRunning) =>
          ~botStatus'.isTradingEnabled]_vars

\* C10: while the bot is running, a completed trading toggle moves
\* Running(Monitoring) to Running(Trading) and back, and never changes isRunning.
C10_ToggleFlipsTradingOnly ==
  [][event'.step = "toggleDone" =>
       /\ botStatus'.isRunning = botStatus.isRunning
       /\ botStatus.isRunning =>
            botStatus'.isTradingEnabled = ~botStatus.isTradingEnabled]_vars

\* C10, its case: a toggle has completed on a running bot and left it trading.
C10_Witness ==
  event.step = "toggleDone" /\ botStatus.isRunning /\ botStatus.isTradingEnabled

\* C11: from any running state, Running(Monitoring) or Running(Trading), a
\* completed stop leaves the bot Stopped: isRunning and isTradingEnabled false.
C11_StopGivesStopped ==
  [][(event'.step = "stopDone" /\ botStatus.isRunning) =>
       (~botStatus'.isRunning /\ ~botStatus'.isTradingEnabled)]_vars

\* C11, its case: a stop has completed and has shown its toast on a stopped bot.
C11_Witness ==
  /\ event.step = "stopDone"
  /\ toast.level = "success"
  /\ ~botStatus.isRunning /\ ~botStatus.isTradingEnabled

\* An evaluation by the RiskManager is the step that changes decision.serial.
Evaluated == decision'.serial # decision.serial

C6_ExposureWithinLimit ==
  /\ TotalExposure(ledger) <= limits.maxPortfolioExposure
  /\ TotalExposure(snapshot) <= limits.maxPortfolioExposure

\* C6, its case: two orders of one cycle have been applied and the second was
\* scaled to the headroom the first left, so that the exposure is at its limit.
C6_Witness ==
  /\ TotalExposure(ledger) = limits.maxPortfolioExposure
  /\ \A m \in Markets : ledger[m] > 0
  /\ orders = << >>
  /\ decision.kind = "Approved"

\* The reason of the first check of the list of 4.3 that the arguments fail, ""
\* when they fail none: each check is stated by itself.
FirstFailing(sig, exposure, loss, data, lim, count) ==
  LET buy == sig.direction = "Buy"
      held == exposure[sig.market]
  IN CASE count >= lim.maxDailyTrades -> "DailyTradeLimitExceeded"
       [] count < lim.maxDailyTrades /\ loss >= lim.maxDailyLoss ->
            "DailyLossLimitExceeded"
       [] OTHER ->
            IF buy /\ held >= lim.maxPositionSize THEN "PositionLimitExceeded"
            ELSE IF buy /\ TotalExposure(exposure) >= lim.maxPortfolioExposure
              THEN "ExposureLimitExceeded"
            ELSE IF buy /\ lim.stopLossEnabled /\ held > 0 /\ data.stopHit
              THEN "StopLossActive"
            ELSE IF buy /\ data.corr > lim.maxCorrelation
                        /\ \E o \in Markets : o # sig.market /\ exposure[o] > 0
              THEN "CorrelationLimitExceeded"
            ELSE ""

\* C12: RiskManager.evaluate applies its checks in the order daily trade count,
\* daily loss, position size, portfolio exposure, stop-loss, correlation, and
\* the reason of a rejection is that of the first check failing in this order;
\* a signal failing none is approved.
C12_FirstFailingCheckDecides ==
  [][Evaluated =>
       LET r == FirstFailing(probe.sig, snapshot, dailyLoss, probe.data, limits,
                             dailyTrades)
       IN /\ decision'.reason = r
          /\ decision'.kind = IF r = "" THEN "Approved" ELSE "Rejected"]_vars

\* C12, its case: a signal failing both the daily-trade and the daily-loss
\* check has been rejected DailyTradeLimitExceeded.
C12_Witness ==
  /\ dailyTrades >= limits.maxDailyTrades
  /\ dailyLoss >= limits.maxDailyLoss
  /\ decision.reason = "DailyTradeLimitExceeded"

\* C13: two evaluations with identical (signal, portfolioState, limits) yield
\* the identical decision and reason, whatever was evaluated in between,
\* the rolling daily trade counter included.
C13_EvaluateDeterministic ==
  [][(Evaluated /\ probe.first.kind # "None" /\ probe.first.loss = dailyLoss) =>
       (decision'.kind = probe.first.kind /\ decision'.reason = probe.first.reason)]_vars

\* C18, as claimed: with stop-loss enabled and the position held in a market at
\* or beyond its stop-loss, every Buy on that market is rejected StopLossActive.
C18_StopLossRejectsBuy ==
  [][(Evaluated /\ limits.stopLossEnabled /\ snapshot[probe.sig.market] > 0
                /\ probe.data.stopHit /\ probe.sig.direction = "Buy") =>
       (decision'.kind = "Rejected" /\ decision'.reason = "StopLossActive")]_vars

\* C18, amended: with stop-loss enabled and the position held in a market at or
\* beyond its stop-loss, every Buy on that market is rejected, with
\* StopLossActive unless one of the checks before the stop-loss check (daily
\* trades, daily loss, position size, exposure) fails first; a Sell on that
\* market is not rejected for the stop-loss.
C18_StopLossBlocksBuy ==
  [][(Evaluated /\ limits.stopLossEnabled /\ snapshot[probe.sig.market] > 0
                /\ probe.data.stopHit) =>
       /\ probe.sig.direction = "Buy" =>
            /\ decision'.kind = "Rejected"
            /\ (/\ dailyTrades < limits.maxDailyTrades
                /\ dailyLoss < limits.maxDailyLoss
                /\ snapshot[probe.sig.market] < limits.maxPositionSize
                /\ TotalExposure(snapshot) < limits.maxPortfolioExposure)
                 => decision'.reason = "StopLossActive"
       /\ probe.sig.direction = "Sell" => decision'.reason # "StopLossActive"]_vars

\* C18, its case: a Buy on a market whose position is at its stop-loss has been
\* rejected StopLossActive.
C18_Witness ==
  /\ limits.stopLossEnabled
  /\ probe.sig.direction = "Buy"
  /\ snapshot[probe.sig.market] > 0 /\ probe.data.stopHit
  /\ decision.reason = "StopLossActive"

\* The portfolio once the orders of the queue are filled.
RECURSIVE WhenFilled(_, _)
WhenFilled(exposure, queue) ==
  IF queue = << >> THEN exposure
  ELSE WhenFilled(Apply(exposure, Head(queue)), Tail(queue))

Within(x, min, max) == ~x.nan /\ x.n >= min /\ x.n <= max

\* The configuration holds no NaN and no value outside the range of its input
\* (min and max of the inputs of the trading page).
ValidSettings ==
  /\ Within(tradingSettings.tradingInterval, 60, 3600)
  /\ Within(tradingSettings.maxDailyTrades, 1, 200)
  /\ Within(emergencySettings.maxDailyLoss, 100, 5000)
  /\ Within(emergencySettings.maxDrawdown, 5, 50)

\* C19: a configuration with an invalid value (a NaN from an emptied input, a
\* value outside its allowed range) is never reported as saved successfully.
C19_InvalidSettingsNotSaved ==
  (event.step = "saveDone" /\ toast.level = "success") => ValidSettings

\* The requests admitted in the window of quota.window seconds ending at t.
AdmittedInWindow(t) ==
  Cardinality({i \in DOMAIN admitted :
                 admitted[i] > t - quota.window /\ admitted[i] <= t})

\* C20: RateLimiter.is_allowed never admits more than limit requests of a key
\* within any window of window seconds, also when several requests arrive
\* within the same second.
C20_AtMostLimitPerWindow ==
  \A t \in 0..now : AdmittedInWindow(t) <= quota.limit

\* Contracts bought less contracts sold, over a sequence of trades.
RECURSIVE NetQuantity(_)
NetQuantity(log) ==
  IF log = << >> THEN 0
  ELSE LET t == log[Len(log)]
       IN NetQuantity(SubSeq(log, 1, Len(log) - 1))
            + (IF t.side = "Buy" THEN t.quantity ELSE 0 - t.quantity)

\* C16: a position with status Open has quantity > 0 and a position with
\* status Closed has quantity 0; the position is Closed exactly when its
\* trades have sold all that they bought.
C16_PositionInvariant ==
  /\ position.status = "Open" => position.quantity > 0
  /\ position.status = "Closed" => position.quantity = 0
  /\ (trades # << >> /\ NetQuantity(trades) = 0) <=> position.status = "Closed"

\* C16, its case: adding and reducing trades, then the closing trade.
C16_Witness ==
  /\ position.status = "Closed"
  /\ Len(trades) >= 3
  /\ trades[Len(trades)].side = "Sell"

\* The trades in timestamp order: the earliest first.
RECURSIVE ByTimestamp(_)
ByTimestamp(log) ==
  IF log = << >> THEN << >>
  ELSE LET i == CHOOSE k \in DOMAIN log :
                  \A j \in DOMAIN log : log[k].timestamp <= log[j].timestamp
       IN <<log[i]>> \o ByTimestamp(SubSeq(log, 1, i - 1) \o SubSeq(log, i + 1, Len(log)))

\* Fractions: a + b, a - b, a times the integer k, a over the integer k > 0.
Plus(a, b) == Frac(a.n * b.d + b.n * a.d, a.d * b.d)

Minus(a, b) == Frac(a.n * b.d - b.n * a.d, a.d * b.d)

Times(a, k) == Frac(a.n * k, a.d)

Over(a, k) == Frac(a.n, a.d * k)

\* Quantity, average price and realized P&L after the trades of log, from
\* nothing: a Buy takes the quantity-weighted mean of the two prices, a Sell
\* realizes (price - average price) per contract and keeps the average price.
RECURSIVE Replay(_)
Replay(log) ==
  IF log = << >> THEN [quantity |-> 0, averagePrice |-> Zero, realizedPnl |-> Zero]
  ELSE LET before == Replay(SubSeq(log, 1, Len(log) - 1))
           t == log[Len(log)]
       IN IF t.side = "Buy"
            THEN [quantity |-> before.quantity + t.quantity,
                  averagePrice |->
                    Over(Plus(Times(before.averagePrice, before.quantity),
                              Frac(t.price * t.quantity, 1)),
                         before.quantity + t.quantity),
                  realizedPnl |-> before.realizedPnl]
            ELSE [quantity |-> before.quantity - t.quantity,
                  averagePrice |-> before.averagePrice,
                  realizedPnl |->
                    Plus(before.realizedPnl,
                         Times(Minus(Frac(t.price, 1), before.averagePrice),
                               t.quantity))]

C21_AtMostOneInFlight == Len(pending) <= 1

\* C23: the success message of a completed trading toggle reports the state
\* the toggle produced: 'enabled' exactly when isTradingEnabled is true after
\* the update, 'disabled' exactly when it is false.
C23_ToggleToastMatchesResult ==
  [][event'.step = "toggleDone" =>
       /\ toast'.text = "Trading enabled" <=> botStatus'.isTradingEnabled
       /\ toast'.text = "Trading disabled" <=> ~botStatus'.isTradingEnabled]_vars

\* C22: whenever the trading page is busy (isLoading is true), it is eventually
\* idle again: every handler that was started reaches its finally block.
C22_LoadingEventuallyClears == isLoading ~> ~isLoading

\* A handler of the page on display has completed and released the controls.
C22_Witness ==
  /\ event.step \in {"startDone", "stopDone", "toggleDone", "estopDone", "saveDone"}
  /\ route = "trading"
  /\ ~isLoading
  /\ pending = << >>

\* C24: after any sequence of allocation changes on the Strategies page the two
\* allocations sum to exactly 100 and each lies in 0..100.
C24_AllocationsSumTo100 ==
  /\ strategies["sentiment"].allocation + strategies["arbitrage"].allocation = 100
  /\ \A id \in StrategyIds : strategies[id].allocation \in 0..100

\* A slider was moved to its end: one strategy holds everything.
C24_Witness ==
  /\ strategyEvent.op = "allocation"
  /\ strategies[strategyEvent.id].allocation = 100

\* C25: while a strategy's enabled flag is false no allocation change, on its
\* own slider or on the other strategy's, alters its allocation.
C25_DisabledAllocationUntouched ==
  [][strategyEvent'.op = "allocation" =>
       \A id \in StrategyIds :
         ~strategies[id].enabled =>
           strategies'[id].allocation = strategies[id].allocation]_vars

\* C26: handleToggleStrategy flips the enabled flag of the targeted strategy
\* and changes nothing else, and toggling the same strategy again restores the
\* state before the toggle.
C26_ToggleChangesOnlyEnabled ==
  [][strategyEvent'.op = "toggle" =>
       LET id == strategyEvent'.id IN
       /\ strategies'[id].enabled = ~strategies[id].enabled
       /\ strategies'[id].allocation = strategies[id].allocation
       /\ strategies'[id].settings = strategies[id].settings
       /\ strategies'[id].performance = strategies[id].performance
       /\ \A other \in StrategyIds \ {id} : strategies'[other] = strategies[other]
       /\ ToggleStrategy(strategies', id) = strategies]_vars

\* A strategy was switched off and on again after the sliders were moved.
C26_Witness ==
  /\ strategyEvent.op = "toggle"
  /\ strategyEvent.toast = "Statistical Arbitrage enabled"
  /\ strategies["arbitrage"].enabled
  /\ strategies["arbitrage"].allocation = 25
  /\ strategies["arbitrage"].settings.threshold = 90

\* C27: for every botStatus the Sidebar's status text, colour, icon and badge
\* variant follow one mapping: not running gives Stopped, red, AlertTriangle,
\* destructive; running without trading gives Monitoring, yellow, Pause,
\* secondary; running with trading gives Trading, green, Activity, default.
C27_SidebarStatusMapping ==
  app = "desktop" =>
    <<getStatusText, getStatusColor, getStatusIcon, SidebarBadgeVariant>> =
      IF ~botStatus.isRunning
        THEN <<"Stopped", "bg-red-500", "AlertTriangle", "destructive">>
      ELSE IF ~botStatus.isTradingEnabled
        THEN <<"Monitoring", "bg-yellow-500", "Pause", "secondary">>
      ELSE <<"Trading", "bg-green-500", "Activity", "default">>

\* The Sidebar renders a botStatus that is not running but has trading enabled.
C27_Witness ==
  /\ app = "desktop"
  /\ ~botStatus.isRunning
  /\ botStatus.isTradingEnabled
  /\ getStatusText = "Stopped"

\* C28: in every reachable botStatus the Sidebar and the Trading Control page
\* show the same engine state: the page shows 'Trading Active' exactly when the
\* Sidebar shows 'Trading', and shows 'Stopped' exactly when the Sidebar shows
\* 'Stopped', then without a trading badge.
C28_SidebarAndPageAgree ==
  app = "desktop" /\ route = "trading" =>
    /\ HeaderTradingActiveShown <=> getStatusText = "Trading"
    /\ HeaderRunningBadge = "Stopped" <=> getStatusText = "Stopped"
    /\ HeaderRunningBadge = "Stopped" => ~HeaderTradingActiveShown

====
